---- MODULE Spec2Model ----
(***************************************************************************)
(* Financial Ledger API with double-entry bookkeeping.                     *)
(*                                                                         *)
(* The model follows src/main.py statement by statement.  Every request is *)
(* served by a worker that owns one database session (src/database.py).    *)
(* The database is the shared state: the committed rows of the three       *)
(* tables of src/models.py, their id sequences and the row locks taken by  *)
(* SELECT ... FOR UPDATE.  Statements of different workers interleave;     *)
(* each statement sees the rows committed so far (READ COMMITTED).         *)
(*                                                                         *)
(* Amounts.  A request carries a float that becomes Decimal(str(amount));  *)
(* the columns are Numeric(19, 4).  A request amount is modelled as an     *)
(* integer number of request steps, Scale steps making one stored unit     *)
(* (0.0001); a stored amount is an integer number of stored units.  The    *)
(* database rounds a value to the column's scale when it stores it         *)
(* (Quantize).  The 19-digit precision is not modelled.                    *)
(***************************************************************************)
EXTENDS Integers, FiniteSets, Sequences, TLC

\* ---------------------------------------------------------------- bounds
\* Number of account ids the sequence account.id hands out before requests
\* to create accounts stop arriving.
MaxAccounts == 2
\* Number of transaction ids the sequence transaction.id hands out before
\* requests to move money stop arriving.
MaxTx == 2
\* Request steps per stored unit: a request amount is finer than the scale of
\* the Numeric(19, 4) columns.
Scale == 4

Workers == {"w1", "w2"}
Users == {"u1", "u2"}
Currencies == {"USD", "EUR"}
\* Request amounts, in request steps: one that rounds to 0 stored units, one
\* that is rounded up to 1 stored unit, and exactly 2 stored units.
Amounts == {1, Scale - 1, 2 * Scale}

\* Request amounts the schema does not accept.
InvalidAmounts == {0 - 1, 0}

\* The account table after CreateAccount(u1, USD) and CreateAccount(u2, USD).
TwoAccounts ==
    {[id |-> 1, user_id |-> "u1", account_type |-> "checking",
      currency |-> "USD", status |-> "active"],
     [id |-> 2, user_id |-> "u2", account_type |-> "checking",
      currency |-> "USD", status |-> "active"]}

\* Ids a request may name: those the sequence can hand out, and one more.
AccountIds == 1 .. (MaxAccounts + 1)

NoWorker == "none"
NoRow == [id |-> 0]

VARIABLES
    accounts,       \* committed rows of table account
    transactions,   \* committed rows of table transaction
    entries,        \* committed rows of table ledger_entry
    nextAccountId,  \* sequence of account.id
    nextTxId,       \* sequence of transaction.id
    nextEntryId,    \* sequence of ledger_entry.id
    locks,          \* account id -> worker holding its row lock, or NoWorker
    pc,             \* worker -> position in its handler
    req,            \* worker -> the request it is serving
    local,          \* worker -> the handler's local variables
    result          \* worker -> the response of its last request

vars == <<accounts, transactions, entries, nextAccountId, nextTxId, nextEntryId,
          locks, pc, req, local, result>>

db == <<accounts, transactions, entries, nextAccountId, nextTxId, nextEntryId>>

\* ------------------------------------------------------------- requests
NoReq == [op |-> "none", user_id |-> "", source |-> 0, dest |-> 0,
          amount |-> 0, currency |-> ""]

CreateReq(u, c) == [op |-> "create", user_id |-> u, source |-> 0, dest |-> 0,
                    amount |-> 0, currency |-> c]

TransferReq(s, d, a, c) == [op |-> "transfer", user_id |-> "", source |-> s,
                            dest |-> d, amount |-> a, currency |-> c]

DepositReq(d, a, c) == [op |-> "deposit", user_id |-> "", source |-> 0,
                        dest |-> d, amount |-> a, currency |-> c]

WithdrawalReq(s, a, c) == [op |-> "withdrawal", user_id |-> "", source |-> s,
                           dest |-> 0, amount |-> a, currency |-> c]

\* read_account(account_id); the id travels in `source`.
ReadReq(id) == [op |-> "read", user_id |-> "", source |-> id, dest |-> 0,
                amount |-> 0, currency |-> ""]

\* source_account, dest_account: the rows the locking queries returned (NoRow
\* for None; db_account for read_account); balance: current_source_balance;
\* entries: the rows read_account's balance was summed from; tx:
\* new_transaction once it is flushed (NoRow before); error: the exception
\* the database raised, if any.
NoLocal == [source_account |-> NoRow, dest_account |-> NoRow, balance |-> 0,
            entries |-> {}, tx |-> NoRow, error |-> "none"]

NoResult == [status |-> "none", id |-> 0, amount |-> 0]

Failure(kind) == [status |-> kind, id |-> 0, amount |-> 0]

\* ------------------------------------------------------------- helpers
AccountRow(id) ==
    IF \E a \in accounts : a.id = id
    THEN CHOOSE a \in accounts : a.id = id
    ELSE NoRow

RECURSIVE SumSigned(_)
SumSigned(es) ==
    IF es = {} THEN 0
    ELSE LET e == CHOOSE x \in es : TRUE
         IN  (IF e.entry_type = "credit" THEN e.amount
              ELSE IF e.entry_type = "debit" THEN 0 - e.amount
              ELSE 0) + SumSigned(es \ {e})

\* calculate_account_balance: in stored units.
calculate_account_balance(account_id) ==
    SumSigned({e \in entries : e.account_id = account_id})

\* A value stored in a Numeric(19, 4) column: rounded to the scale, half up.
Quantize(a) == (2 * a + Scale) \div (2 * Scale)

\* current_source_balance < amount, the balance in stored units and the
\* amount as requested.
InsufficientFunds(balance, amount) == balance * Scale < amount

\* CheckConstraint('amount > 0') of ledger_entry.
positive_ledger_amount(e) == e.amount > 0

\* Mutant: the table has no unique constraint.
uq_user_currency_missing(r) == TRUE

\* UniqueConstraint(user_id, currency) of account: may row r be inserted?
uq_user_currency(r) ==
    ~ \E a \in accounts : a.user_id = r.user_id /\ a.currency = r.currency

\* Mutant: the locking read never waits (a plain SELECT).
CanLockNoWait(w, id) == TRUE

\* SELECT ... FOR UPDATE on account id by worker w does not have to wait.
CanLock(w, id) == locks[id] \in {NoWorker, w}

HeldBy(w) == {id \in AccountIds : locks[id] = w}

\* Commit or rollback ends the database transaction: its row locks go.
ReleaseLocks(w) == [id \in AccountIds |-> IF locks[id] = w THEN NoWorker ELSE locks[id]]

\* Requests are accepted while the sequences have values left to draw.
TxLeft == nextTxId <= MaxTx

AccountsLeft == nextAccountId <= MaxAccounts

\* ---------------------------------------------------------------- init
\* The database as create_all_tables leaves it: no rows.
EmptyDatabase ==
    /\ accounts = {}
    /\ transactions = {}
    /\ entries = {}
    /\ nextAccountId = 1
    /\ nextTxId = 1
    /\ nextEntryId = 1

\* No request is being served.
WorkersIdle ==
    /\ locks = [id \in AccountIds |-> NoWorker]
    /\ pc = [w \in Workers |-> "idle"]
    /\ req = [w \in Workers |-> NoReq]
    /\ local = [w \in Workers |-> NoLocal]
    /\ result = [w \in Workers |-> NoResult]

\* ------------------------------------------------------ request arrival
\* A request reaches its handler with a fresh session (get_db).
Start(w, r, at) ==
    /\ pc[w] = "idle"
    /\ pc' = [pc EXCEPT ![w] = at]
    /\ req' = [req EXCEPT ![w] = r]
    /\ UNCHANGED <<db, locks, local, result>>

BeginCreate(w, owners) ==
    /\ AccountsLeft
    /\ \E o \in owners : Start(w, CreateReq(o[1], o[2]), "c_check")

\* Mutant: the field is declared ge=0.
ValidAmountGe(a) == a >= 0

\* amount: float = Field(..., gt=0) of TransferCreate.
ValidAmount(a) == a > 0

\* A body that fails validation never reaches its handler: the framework
\* answers 422.
RejectInvalid(w, ids, amounts, currencies) ==
    /\ pc[w] = "idle"
    /\ \E id \in ids, a \in amounts, c \in currencies :
          /\ ~ ValidAmount(a)
          /\ req' \in {[req EXCEPT ![w] = r] :
                          r \in {TransferReq(id, id, a, c), DepositReq(id, a, c),
                                 WithdrawalReq(id, a, c)}}
    /\ pc' = [pc EXCEPT ![w] = "done"]
    /\ result' = [result EXCEPT ![w] = Failure("ValidationError")]
    /\ UNCHANGED <<db, locks, local>>

BeginTransfer(w, ids, amounts, currencies) ==
    /\ TxLeft
    /\ \E s \in ids, d \in ids, a \in amounts, c \in currencies :
          /\ ValidAmount(a)
          /\ Start(w, TransferReq(s, d, a, c), "t_lock_src")

BeginDeposit(w, ids, amounts, currencies) ==
    /\ TxLeft
    /\ \E d \in ids, a \in amounts, c \in currencies :
          /\ ValidAmount(a)
          /\ Start(w, DepositReq(d, a, c), "d_lock")

BeginWithdrawal(w, ids, amounts, currencies) ==
    /\ TxLeft
    /\ \E s \in ids, a \in amounts, c \in currencies :
          /\ ValidAmount(a)
          /\ Start(w, WithdrawalReq(s, a, c), "w_lock")

\* The response is sent and the session closed (get_db's finally).
Return(w) ==
    /\ pc[w] = "done"
    /\ pc' = [pc EXCEPT ![w] = "idle"]
    /\ req' = [req EXCEPT ![w] = NoReq]
    /\ local' = [local EXCEPT ![w] = NoLocal]
    /\ result' = [result EXCEPT ![w] = NoResult]
    /\ UNCHANGED <<db, locks>>

\* The handler leaves with `r`; its database transaction has ended.
Finish(w, r) ==
    /\ pc' = [pc EXCEPT ![w] = "done"]
    /\ result' = [result EXCEPT ![w] = r]
    /\ locks' = ReleaseLocks(w)

\* ------------------------------------------------------- create_account
\* create_new_account_in_db, the existence query and the 409.
CreateCheck(w) ==
    /\ pc[w] = "c_check"
    /\ IF \E a \in accounts : a.user_id = req[w].user_id /\ a.currency = req[w].currency
       THEN /\ Finish(w, Failure("DuplicateAccount"))
            /\ UNCHANGED <<db, req, local>>
       ELSE /\ pc' = [pc EXCEPT ![w] = "c_insert"]
            /\ UNCHANGED <<db, locks, req, local, result>>

\* models.Account(**account.model_dump()), status defaulting to "active".
NewAccount(w) ==
    [id |-> nextAccountId, user_id |-> req[w].user_id, account_type |-> "checking",
     currency |-> req[w].currency, status |-> "active"]

\* db.add; db.commit: the INSERT draws an id, then meets the unique constraint.
\* The IntegrityError is not handled anywhere: the framework answers 500.
CreateInsert(w) ==
    /\ pc[w] = "c_insert"
    /\ nextAccountId' = nextAccountId + 1
    /\ IF uq_user_currency(NewAccount(w))
       THEN /\ accounts' = accounts \cup {NewAccount(w)}
            /\ Finish(w, [status |-> "Created", id |-> nextAccountId, amount |-> 0])
            /\ local' = local
       ELSE /\ accounts' = accounts
            /\ Finish(w, Failure("Internal"))
            /\ local' = [local EXCEPT ![w].error = "IntegrityError"]
    /\ UNCHANGED <<transactions, entries, nextTxId, nextEntryId, req>>

\* --------------------------------------------------------- read_account
BeginRead(w, ids) ==
    \E id \in ids : Start(w, ReadReq(id), "g_query")

\* Mutant: the row is read with with_for_update(), as the handlers below do.
QueryAccountForUpdate(w, id, field, to) ==
    /\ AccountRow(id) # NoRow => locks[id] \in {NoWorker, w}
    /\ locks' = IF AccountRow(id) # NoRow THEN [locks EXCEPT ![id] = w] ELSE locks
    /\ local' = [local EXCEPT ![w][field] = AccountRow(id)]
    /\ pc' = [pc EXCEPT ![w] = to]
    /\ UNCHANGED <<db, req, result>>

\* query(Account).filter(id == id).first(): the row or None; no lock.
QueryAccount(w, id, field, to) ==
    /\ locks' = locks
    /\ local' = [local EXCEPT ![w][field] = AccountRow(id)]
    /\ pc' = [pc EXCEPT ![w] = to]
    /\ UNCHANGED <<db, req, result>>

\* The account query of read_account.
ReadAccount(w) ==
    /\ pc[w] = "g_query"
    /\ QueryAccount(w, req[w].source, "source_account", "g_balance")

\* The 404, or calculate_account_balance and the response, whose
\* current_balance is the float of the sum (the same float for the same sum).
ReadBalance(w) ==
    /\ pc[w] = "g_balance"
    /\ IF local[w].source_account = NoRow
       THEN /\ Finish(w, Failure("NotFound"))
            /\ UNCHANGED <<db, req, local>>
       ELSE /\ Finish(w, [status |-> "Account", id |-> req[w].source,
                          amount |-> calculate_account_balance(req[w].source)])
            /\ local' = [local EXCEPT
                  ![w].balance = calculate_account_balance(req[w].source),
                  ![w].entries = {e \in entries : e.account_id = req[w].source}]
            /\ UNCHANGED <<db, req>>

\* ------------------------------------------------- the three handlers' steps
\* Mutant: the query has no with_for_update(): it neither waits nor locks.
LockAccountPlainSelect(w, id, field, to) ==
    /\ locks' = locks
    /\ local' = [local EXCEPT ![w][field] = AccountRow(id)]
    /\ pc' = [pc EXCEPT ![w] = to]
    /\ UNCHANGED <<db, req, result>>

\* query(Account).filter(id == id).with_for_update().first(): the row, locked
\* until the transaction ends, or None (nothing is locked then).  The statement
\* waits while another transaction holds the row's lock.
LockAccount(w, id, field, to) ==
    /\ AccountRow(id) # NoRow => CanLock(w, id)
    /\ locks' = IF AccountRow(id) # NoRow THEN [locks EXCEPT ![id] = w] ELSE locks
    /\ local' = [local EXCEPT ![w][field] = AccountRow(id)]
    /\ pc' = [pc EXCEPT ![w] = to]
    /\ UNCHANGED <<db, req, result>>

\* Mutant: the failure leaves the handler with its transaction still open.
RaiseKeepingLocks(w, kind) ==
    /\ pc' = [pc EXCEPT ![w] = "done"]
    /\ result' = [result EXCEPT ![w] = Failure(kind)]
    /\ locks' = locks
    /\ UNCHANGED <<db, req, local>>

\* raise HTTPException inside `with db.begin()`: the transaction is rolled
\* back, `except HTTPException: raise` hands the failure to the caller.
Raise(w, kind) ==
    /\ Finish(w, Failure(kind))
    /\ UNCHANGED <<db, req, local>>

\* Mutant: the row is left with the column's default status.
NewTransactionPending(w, type) ==
    [id |-> nextTxId, type |-> type, status |-> "pending",
     amount |-> Quantize(req[w].amount), currency |-> req[w].currency]

\* Mutant: the row is merged under a fixed id, replacing the row of that id.
NewTransactionMerged(w, type) ==
    [id |-> 1, type |-> type, status |-> "completed",
     amount |-> Quantize(req[w].amount), currency |-> req[w].currency]

\* models.Transaction(type=..., status="completed", amount=..., currency=...).
NewTransaction(w, type) ==
    [id |-> nextTxId, type |-> type, status |-> "completed",
     amount |-> Quantize(req[w].amount), currency |-> req[w].currency]

\* Mutant: the INSERT of the Transaction row is committed on its own.
FlushTransactionAutocommit(w, type, balance, to) ==
    /\ local' = [local EXCEPT ![w].tx = NewTransaction(w, type),
                              ![w].balance = balance]
    /\ nextTxId' = nextTxId + 1
    /\ transactions' = transactions \cup {NewTransaction(w, type)}
    /\ pc' = [pc EXCEPT ![w] = to]
    /\ UNCHANGED <<accounts, entries, nextAccountId, nextEntryId, locks, req, result>>

\* db.add(new_transaction); db.flush(): the INSERT runs inside the open
\* transaction and draws the id; the row is not committed yet.
FlushTransaction(w, type, balance, to) ==
    /\ local' = [local EXCEPT ![w].tx = NewTransaction(w, type),
                              ![w].balance = balance]
    /\ nextTxId' = nextTxId + 1
    /\ transactions' = transactions
    /\ pc' = [pc EXCEPT ![w] = to]
    /\ UNCHANGED <<accounts, entries, nextAccountId, nextEntryId, locks, req, result>>

LedgerEntry(id, tx, account_id, entry_type, amount) ==
    [id |-> id, transaction_id |-> tx.id, account_id |-> account_id,
     entry_type |-> entry_type, amount |-> Quantize(amount)]

\* Mutant: the credit entry is never added.
TransferEntriesDebitOnly(w) ==
    {LedgerEntry(nextEntryId, local[w].tx, req[w].source, "debit", req[w].amount)}

\* Mutant: the debit lands on the destination and the credit on the source.
TransferEntriesSwapped(w) ==
    {LedgerEntry(nextEntryId, local[w].tx, req[w].dest, "debit", req[w].amount),
     LedgerEntry(nextEntryId + 1, local[w].tx, req[w].source, "credit", req[w].amount)}

\* Mutant: the debit entry is never added.
TransferEntriesCreditOnly(w) ==
    {LedgerEntry(nextEntryId, local[w].tx, req[w].dest, "credit", req[w].amount)}

\* debit_entry and credit_entry of create_transfer.
TransferEntries(w) ==
    {LedgerEntry(nextEntryId, local[w].tx, req[w].source, "debit", req[w].amount),
     LedgerEntry(nextEntryId + 1, local[w].tx, req[w].dest, "credit", req[w].amount)}

\* credit_entry of create_deposit.
DepositEntries(w) ==
    {LedgerEntry(nextEntryId, local[w].tx, req[w].dest, "credit", req[w].amount)}

\* debit_entry of create_withdrawal.
WithdrawalEntries(w) ==
    {LedgerEntry(nextEntryId, local[w].tx, req[w].source, "debit", req[w].amount)}

\* Leaving `with db.begin()`: the pending entries are flushed (their INSERT
\* meets the check constraint) and the transaction commits, publishing the
\* Transaction row and its entries together; or the INSERT fails, the
\* transaction is rolled back and `except Exception` answers 500.
\* db.refresh and setattr(new_transaction, 'amount', float(...)) come before:
\* the flush writes the float back to the uncommitted row, where the column
\* rounds it to the value it already held, the amount the caller is answered.
CommitWrite(w, new) ==
    IF \A e \in new : positive_ledger_amount(e)
    THEN /\ transactions' = transactions \cup {local[w].tx}
         /\ entries' = entries \cup new
         /\ nextEntryId' = nextEntryId + Cardinality(new)
         /\ Finish(w, [status |-> "Completed", id |-> local[w].tx.id,
                       amount |-> local[w].tx.amount])
         /\ UNCHANGED <<accounts, nextAccountId, nextTxId, req, local>>
    ELSE /\ Finish(w, Failure("Internal"))
         /\ local' = [local EXCEPT ![w].error = "IntegrityError"]
         /\ UNCHANGED <<db, req>>

\* ------------------------------------------------------ create_transfer
TransferLockSource(w) ==
    /\ pc[w] = "t_lock_src"
    /\ LockAccount(w, req[w].source, "source_account", "t_lock_dst")

TransferLockDest(w) ==
    /\ pc[w] = "t_lock_dst"
    /\ LockAccount(w, req[w].dest, "dest_account", "t_check")

\* The three checks of create_transfer, in the code's order.
TransferOutcome(source_account, dest_account, currency, balance, amount) ==
    IF source_account = NoRow \/ dest_account = NoRow THEN "NotFound"
    ELSE IF source_account.currency # currency \/ dest_account.currency # currency
         THEN "CurrencyMismatch"
    ELSE IF InsufficientFunds(balance, amount) THEN "InsufficientFunds"
    ELSE "ok"

\* From the checks to db.flush().
TransferValidate(w) ==
    /\ pc[w] = "t_check"
    /\ LET balance == calculate_account_balance(req[w].source)
           outcome == TransferOutcome(local[w].source_account, local[w].dest_account,
                                      req[w].currency, balance, req[w].amount)
       IN  IF outcome = "ok"
           THEN FlushTransaction(w, "transfer", balance, "t_commit")
           ELSE Raise(w, outcome)

TransferCommit(w) ==
    /\ pc[w] = "t_commit"
    /\ CommitWrite(w, TransferEntries(w))

\* ------------------------------------------------------- create_deposit
DepositLock(w) ==
    /\ pc[w] = "d_lock"
    /\ LockAccount(w, req[w].dest, "dest_account", "d_check")

DepositOutcome(dest_account) ==
    IF dest_account = NoRow THEN "NotFound" ELSE "ok"

DepositValidate(w) ==
    /\ pc[w] = "d_check"
    /\ IF DepositOutcome(local[w].dest_account) = "ok"
       THEN FlushTransaction(w, "deposit", 0, "d_commit")
       ELSE Raise(w, DepositOutcome(local[w].dest_account))

DepositCommit(w) ==
    /\ pc[w] = "d_commit"
    /\ CommitWrite(w, DepositEntries(w))

\* ---------------------------------------------------- create_withdrawal
WithdrawalLock(w) ==
    /\ pc[w] = "w_lock"
    /\ LockAccount(w, req[w].source, "source_account", "w_check")

WithdrawalOutcome(source_account, balance, amount) ==
    IF source_account = NoRow THEN "NotFound"
    ELSE IF InsufficientFunds(balance, amount) THEN "InsufficientFunds"
    ELSE "ok"

WithdrawalValidate(w) ==
    /\ pc[w] = "w_check"
    /\ LET balance == calculate_account_balance(req[w].source)
           outcome == WithdrawalOutcome(local[w].source_account, balance, req[w].amount)
       IN  IF outcome = "ok"
           THEN FlushTransaction(w, "withdrawal", balance, "w_commit")
           ELSE Raise(w, outcome)

WithdrawalCommit(w) ==
    /\ pc[w] = "w_commit"
    /\ CommitWrite(w, WithdrawalEntries(w))

\* ------------------------------------------- errors raised by the database
\* The account whose row lock the worker's next statement asks for (0: none).
Wanted(w) ==
    CASE pc[w] \in {"t_lock_src", "w_lock"} -> req[w].source
      [] pc[w] \in {"t_lock_dst", "d_lock"} -> req[w].dest
      [] OTHER -> 0

Blocked(w) ==
    /\ Wanted(w) # 0
    /\ AccountRow(Wanted(w)) # NoRow
    /\ ~ CanLock(w, Wanted(w))

\* Each of two workers waits for a row lock the other holds.
Deadlocked(w) ==
    /\ Blocked(w)
    /\ \E v \in Workers \ {w} :
          /\ locks[Wanted(w)] = v
          /\ Blocked(v)
          /\ locks[Wanted(v)] = w

\* `except Exception`: db.rollback() and a 500.
Rollback500(w, error) ==
    /\ Finish(w, Failure("Internal"))
    /\ local' = [local EXCEPT ![w].error = error]
    /\ UNCHANGED <<db, req>>

\* A database that detects the deadlock ends one of the waiting statements
\* with an error; one that does not leaves both workers waiting.
DeadlockAbort(w) ==
    /\ Deadlocked(w)
    /\ Rollback500(w, "DeadlockDetected")

\* An unexpected persistence error between the Transaction insert and the
\* commit (a lost connection, say).
PersistenceError(w) ==
    /\ pc[w] \in {"t_commit", "d_commit", "w_commit"}
    /\ Rollback500(w, "OperationalError")

\* ------------------------------------------------------- specifications
\* Spec: two workers move money between two existing accounts of one
\* currency; requests may also name an account that does not exist.  The
\* amounts are those the ledger can store (SpecSeq has the others).
Init ==
    /\ accounts = TwoAccounts
    /\ transactions = {}
    /\ entries = {}
    /\ nextAccountId = Cardinality(TwoAccounts) + 1
    /\ nextTxId = 1
    /\ nextEntryId = 1
    /\ WorkersIdle

LedgerIds == 1 .. (Cardinality(TwoAccounts) + 1)

\* The request amounts that are stored as more than 0.
LedgerAmounts == {a \in Amounts : Quantize(a) > 0}

Next ==
    \E w \in Workers :
        \/ BeginTransfer(w, LedgerIds, LedgerAmounts, {"USD"})
        \/ TransferLockSource(w)
        \/ TransferLockDest(w)
        \/ TransferValidate(w)
        \/ TransferCommit(w)
        \/ BeginDeposit(w, LedgerIds, LedgerAmounts, {"USD"})
        \/ DepositLock(w)
        \/ DepositValidate(w)
        \/ DepositCommit(w)
        \/ BeginWithdrawal(w, LedgerIds, LedgerAmounts, {"USD"})
        \/ WithdrawalLock(w)
        \/ WithdrawalValidate(w)
        \/ WithdrawalCommit(w)
        \/ DeadlockAbort(w)
        \/ PersistenceError(w)
        \/ Return(w)

Spec == Init /\ [][Next]_vars

\* SpecAccounts: two workers create accounts in the empty database.
InitAccounts == EmptyDatabase /\ WorkersIdle

NextAccounts ==
    \E w \in Workers :
        \/ BeginCreate(w, Users \X Currencies)
        \/ CreateCheck(w)
        \/ CreateInsert(w)
        \/ Return(w)

SpecAccounts == InitAccounts /\ [][NextAccounts]_vars

\* SpecSeq: one request at a time, of every kind and shape, from the empty
\* database.  A request names an id the sequence can hand out: the account
\* is missing until it is created.
InitSeq == EmptyDatabase /\ WorkersIdle

SeqIds == 1 .. MaxAccounts

\* The accounts SpecSeq's requests ask for: two of one currency, and a
\* second one for one of the users.
SeqOwners == {<<"u1", "USD">>, <<"u2", "USD">>, <<"u1", "EUR">>}

NextSeq ==
    \E w \in {"w1"} :
        \/ BeginCreate(w, SeqOwners)
        \/ CreateCheck(w)
        \/ CreateInsert(w)
        \/ BeginTransfer(w, SeqIds, Amounts, Currencies)
        \/ TransferLockSource(w)
        \/ TransferLockDest(w)
        \/ TransferValidate(w)
        \/ TransferCommit(w)
        \/ BeginDeposit(w, SeqIds, Amounts, Currencies)
        \/ DepositLock(w)
        \/ DepositValidate(w)
        \/ DepositCommit(w)
        \/ BeginWithdrawal(w, SeqIds, Amounts, Currencies)
        \/ WithdrawalLock(w)
        \/ WithdrawalValidate(w)
        \/ WithdrawalCommit(w)
        \/ PersistenceError(w)
        \/ Return(w)

SpecSeq == InitSeq /\ [][NextSeq]_vars

\* SpecValid: one request at a time on two existing accounts, of every
\* amount: also the amounts the schema refuses.
InitValid ==
    /\ accounts = TwoAccounts
    /\ transactions = {}
    /\ entries = {}
    /\ nextAccountId = Cardinality(TwoAccounts) + 1
    /\ nextTxId = 1
    /\ nextEntryId = 1
    /\ WorkersIdle

AnyAmounts == Amounts \cup InvalidAmounts

NextValid ==
    \E w \in {"w1"} :
        \/ RejectInvalid(w, LedgerIds, AnyAmounts, {"USD"})
        \/ BeginTransfer(w, LedgerIds, AnyAmounts, {"USD"})
        \/ TransferLockSource(w)
        \/ TransferLockDest(w)
        \/ TransferValidate(w)
        \/ TransferCommit(w)
        \/ BeginDeposit(w, LedgerIds, AnyAmounts, {"USD"})
        \/ DepositLock(w)
        \/ DepositValidate(w)
        \/ DepositCommit(w)
        \/ BeginWithdrawal(w, LedgerIds, AnyAmounts, {"USD"})
        \/ WithdrawalLock(w)
        \/ WithdrawalValidate(w)
        \/ WithdrawalCommit(w)
        \/ Return(w)

SpecValid == InitValid /\ [][NextValid]_vars

\* SpecRead: two workers read the two accounts, or an account that does not
\* exist, while deposits and withdrawals change the balances.
InitRead ==
    /\ accounts = TwoAccounts
    /\ transactions = {}
    /\ entries = {}
    /\ nextAccountId = Cardinality(TwoAccounts) + 1
    /\ nextTxId = 1
    /\ nextEntryId = 1
    /\ WorkersIdle

NextRead ==
    \E w \in Workers :
        \/ BeginRead(w, LedgerIds)
        \/ ReadAccount(w)
        \/ ReadBalance(w)
        \/ BeginDeposit(w, LedgerIds, LedgerAmounts, {"USD"})
        \/ DepositLock(w)
        \/ DepositValidate(w)
        \/ DepositCommit(w)
        \/ BeginWithdrawal(w, LedgerIds, LedgerAmounts, {"USD"})
        \/ WithdrawalLock(w)
        \/ WithdrawalValidate(w)
        \/ WithdrawalCommit(w)
        \/ Return(w)

SpecRead == InitRead /\ [][NextRead]_vars

\* SpecOpposite: two accounts are funded with 100.00 each, then one worker
\* transfers 50.00 from account 1 to account 2 while the other transfers
\* 30.00 from account 2 to account 1.
Unit == 10000

\* n.00 as a request amount.
Money(n) == n * Unit * Scale

Own(w) == IF w = "w1" THEN 1 ELSE 2

Other(w) == IF w = "w1" THEN 2 ELSE 1

InitOpposite ==
    /\ accounts = TwoAccounts
    /\ transactions = {}
    /\ entries = {}
    /\ nextAccountId = Cardinality(TwoAccounts) + 1
    /\ nextTxId = 1
    /\ nextEntryId = 1
    /\ WorkersIdle

Funded == Cardinality({tx \in transactions : tx.type = "deposit"}) = Cardinality(Workers)

FundOpposite(w) ==
    /\ calculate_account_balance(Own(w)) = 0
    /\ Start(w, DepositReq(Own(w), Money(100), "USD"), "d_lock")

ReturnFunded(w) ==
    /\ req[w].op = "deposit"
    /\ Return(w)

BeginOpposite(w) ==
    /\ Funded
    /\ Start(w, TransferReq(Own(w), Other(w),
                            IF w = "w1" THEN Money(50) ELSE Money(30), "USD"),
             "t_lock_src")

NextOpposite ==
    \E w \in Workers :
        \/ FundOpposite(w)
        \/ DepositLock(w)
        \/ DepositValidate(w)
        \/ DepositCommit(w)
        \/ ReturnFunded(w)
        \/ BeginOpposite(w)
        \/ TransferLockSource(w)
        \/ TransferLockDest(w)
        \/ TransferValidate(w)
        \/ TransferCommit(w)
        \/ DeadlockAbort(w)

SpecOpposite == InitOpposite /\ [][NextOpposite]_vars

\* ================================================================ claims
EntriesOf(tx) == {e \in entries : e.transaction_id = tx.id}

Debits == {"transfer", "withdrawal"}

FailureKinds == {"NotFound", "CurrencyMismatch", "InsufficientFunds", "Internal"}

Done(w) == pc[w] = "done"

\* ---------------------------------------------------------------- C1
\* C1: in every reachable state, whatever the interleaving of the workers'
\* transfers, withdrawals and deposits, the derived balance of every account
\* is at least 0.
NoOverdraft ==
    \A a \in accounts : calculate_account_balance(a.id) >= 0

\* Two debits race for one account that cannot pay both: one has passed its
\* balance check and is about to commit, the other waits for the row lock.
NoOverdraftWitness ==
    \E w \in Workers : \E v \in Workers \ {w} :
        /\ pc[v] \in {"t_commit", "w_commit"}
        /\ req[w].op \in Debits
        /\ pc[w] \in {"t_lock_src", "w_lock"}
        /\ req[w].source = req[v].source
        /\ Blocked(w)
        /\ Quantize(req[v].amount) > 0
        /\ calculate_account_balance(req[v].source) * Scale
              < req[v].amount + req[w].amount

\* ---------------------------------------------------------------- C2
\* C2: no reachable state has two transfers each holding the row lock of one
\* account while waiting for the lock the other holds.
NoLockCycle == \A w \in Workers : ~ Deadlocked(w)

\* ---------------------------------------------------------------- C3
\* C3: a transfer asks for row locks in ascending account id: it never asks
\* for the lock of an account while it holds the lock of a higher id.
AscendingLockOrder ==
    \A w \in Workers :
        (Wanted(w) # 0 /\ AccountRow(Wanted(w)) # NoRow)
            => \A id \in HeldBy(w) : id <= Wanted(w)

\* ---------------------------------------------------------------- C4
\* C4: every committed Transaction of type "transfer" owns exactly two ledger
\* entries, a debit and a credit, each of the transaction's amount; and the
\* entries of a transfer just completed are the debit on its source and the
\* credit on its destination.
DoubleEntry ==
    /\ \A tx \in transactions :
          tx.type = "transfer" =>
             /\ Cardinality(EntriesOf(tx)) = 2
             /\ \E d \in EntriesOf(tx), c \in EntriesOf(tx) :
                   /\ d.entry_type = "debit" /\ c.entry_type = "credit"
                   /\ d.amount = tx.amount /\ c.amount = tx.amount
    /\ \A w \in Workers :
          (Done(w) /\ req[w].op = "transfer" /\ result[w].status = "Completed") =>
             \E tx \in transactions :
                /\ tx.id = result[w].id /\ tx.type = "transfer"
                /\ \E d \in EntriesOf(tx), c \in EntriesOf(tx) :
                      /\ d.entry_type = "debit" /\ d.account_id = req[w].source
                      /\ c.entry_type = "credit" /\ c.account_id = req[w].dest

\* A transfer between two different accounts has completed.
DoubleEntryWitness ==
    \E w \in Workers :
        /\ Done(w) /\ req[w].op = "transfer" /\ result[w].status = "Completed"
        /\ req[w].source # req[w].dest

\* ---------------------------------------------------------------- C5
\* Every committed Transaction has all the entries of its type and every
\* committed entry has its Transaction.
NoOrphans ==
    /\ \A tx \in transactions :
          Cardinality(EntriesOf(tx)) = IF tx.type = "transfer" THEN 2 ELSE 1
    /\ \A e \in entries : \E tx \in transactions : tx.id = e.transaction_id

\* No committed row carries the id the worker's failed attempt drew.
NothingLeft(w) ==
    local[w].tx # NoRow =>
        /\ \A tx \in transactions : tx.id # local[w].tx.id
        /\ \A e \in entries : e.transaction_id # local[w].tx.id

\* C5: the step with which a transfer, deposit or withdrawal fails leaves the
\* committed Transaction and LedgerEntry rows as they were and none of them
\* comes from the failed attempt; and no state holds a committed Transaction
\* without all of its entries or an entry without its Transaction.
Atomicity ==
    [][ /\ \A w \in Workers :
              (pc[w] # "done" /\ pc'[w] = "done"
                  /\ result'[w].status \in FailureKinds) =>
                 /\ transactions' = transactions
                 /\ entries' = entries
                 /\ NothingLeft(w)'
        /\ NoOrphans' ]_vars

\* An attempt has failed after its Transaction row was inserted.
AtomicityWitness ==
    \E w \in Workers :
        /\ Done(w) /\ result[w].status = "Internal"
        /\ local[w].tx # NoRow
        /\ local[w].error = "OperationalError"

\* ---------------------------------------------------------------- C6
\* What the claim says a transfer's checks answer, from the committed rows.
ExpectedTransfer(r) ==
    IF AccountRow(r.source) = NoRow \/ AccountRow(r.dest) = NoRow THEN "NotFound"
    ELSE IF AccountRow(r.source).currency # r.currency
            \/ AccountRow(r.dest).currency # r.currency THEN "CurrencyMismatch"
    ELSE IF calculate_account_balance(r.source) * Scale < r.amount
         THEN "InsufficientFunds"
    ELSE "Completed"

\* Every committed transfer has the currency of the accounts of its entries.
TransferCurrency ==
    \A tx \in transactions :
        tx.type = "transfer" =>
            \A e \in EntriesOf(tx) : AccountRow(e.account_id).currency = tx.currency

\* C6: a transfer of an amount > 0 ends NotFound if an account is missing,
\* else CurrencyMismatch if an account's currency is not the requested one,
\* else InsufficientFunds if the source's balance is below the amount, and
\* else completes, unless the connection to the database fails; and every
\* committed transfer has the currency of both its accounts.
TransferResult ==
    [][ /\ \A w \in Workers :
              /\ (pc[w] = "t_check" /\ pc'[w] = "done")
                    => result'[w].status = ExpectedTransfer(req[w])
              /\ (pc[w] = "t_check" /\ pc'[w] = "t_commit")
                    => ExpectedTransfer(req[w]) = "Completed"
              /\ (pc[w] = "t_commit" /\ pc'[w] = "done"
                     /\ local'[w].error # "OperationalError")
                    => result'[w].status = "Completed"
        /\ TransferCurrency' ]_vars

\* ---------------------------------------------------------------- C7
\* C7: in every reachable state, also after two racing CreateAccount calls
\* for one (user, currency) pair, no two account rows share the pair.
AccountUniqueness ==
    \A a \in accounts, b \in accounts :
        (a.user_id = b.user_id /\ a.currency = b.currency) => a = b

\* Two calls for one pair raced: one created the account, the other passed
\* its existence query and was stopped by the table's constraint.
AccountUniquenessWitness ==
    \E w \in Workers : \E v \in Workers \ {w} :
        /\ Done(w) /\ Done(v)
        /\ req[w].user_id = req[v].user_id /\ req[w].currency = req[v].currency
        /\ result[w].status = "Created"
        /\ local[v].error = "IntegrityError"

\* ---------------------------------------------------------------- C8
\* C8: a CreateAccount call either creates the account or fails with
\* DuplicateAccount; it has no other failure kind.
CreateAccountOutcome ==
    \A w \in Workers :
        (Done(w) /\ req[w].op = "create")
            => result[w].status \in {"Created", "DuplicateAccount"}

\* ---------------------------------------------------------------- C9
\* The change the claim gives account id when request r completes with
\* amount a.
Effect(r, a, id) ==
    (IF r.op \in {"transfer", "deposit"} /\ r.dest = id THEN a ELSE 0)
    - (IF r.op \in {"transfer", "withdrawal"} /\ r.source = id THEN a ELSE 0)

OppositeTransfers ==
    (\A w \in Workers : Done(w) /\ req[w].op = "transfer") =>
        /\ \A w \in Workers : result[w].status = "Completed"
        /\ calculate_account_balance(1) * Scale = Money(80)
        /\ calculate_account_balance(2) * Scale = Money(120)

\* --------------------------------------------------------------- C11
\* What the claim says a withdrawal's checks answer, from the committed rows.
ExpectedWithdrawal(r) ==
    IF AccountRow(r.source) = NoRow THEN "NotFound"
    ELSE IF calculate_account_balance(r.source) * Scale < r.amount
         THEN "InsufficientFunds"
    ELSE "Completed"

\* The step commits exactly one Transaction of the type, carrying the id the
\* worker w is answered with, and exactly one entry of it: an entry of the
\* kind on the account, of the Transaction's amount.
CommitsOne(w, type, entry_type, account_id) ==
    /\ \E tx \in transactions' :
          /\ transactions' \ transactions = {tx}
          /\ tx.type = type /\ tx.id = result'[w].id
          /\ \E e \in entries' :
                /\ entries' \ entries = {e}
                /\ e.transaction_id = tx.id
                /\ e.entry_type = entry_type
                /\ e.account_id = account_id
                /\ e.amount = tx.amount

\* C11: a withdrawal of an amount > 0 ends NotFound if the account is
\* missing, else InsufficientFunds if the source's balance is below the
\* amount (the balance stays and no Transaction is persisted), and else
\* persists one Transaction of type "withdrawal" with exactly one entry, a
\* debit of the amount on the source, unless the connection to the database
\* fails.
WithdrawalResult ==
    [][ \A w \in Workers :
          /\ (pc[w] = "w_check" /\ pc'[w] = "done") =>
                /\ result'[w].status = ExpectedWithdrawal(req[w])
                /\ transactions' = transactions
                /\ entries' = entries
          /\ (pc[w] = "w_check" /\ pc'[w] = "w_commit")
                => ExpectedWithdrawal(req[w]) = "Completed"
          /\ (pc[w] = "w_commit" /\ pc'[w] = "done"
                 /\ local'[w].error # "OperationalError") =>
                /\ result'[w].status = "Completed"
                /\ CommitsOne(w, "withdrawal", "debit", req[w].source) ]_vars

\* --------------------------------------------------------------- C12
\* C12: a deposit of an amount > 0 ends NotFound if the account is missing
\* and else, whatever the account's balance, holds the row lock of the
\* destination only and persists one Transaction of type "deposit" with
\* exactly one entry, a credit of the amount on the destination, unless the
\* connection to the database fails.
DepositResult ==
    [][ \A w \in Workers :
          /\ (pc[w] = "d_check" /\ pc'[w] = "done") =>
                /\ AccountRow(req[w].dest) = NoRow
                /\ result'[w].status = "NotFound"
          /\ (pc[w] = "d_check" /\ pc'[w] = "d_commit") =>
                /\ AccountRow(req[w].dest) # NoRow
                /\ HeldBy(w) = {req[w].dest}
          /\ (pc[w] = "d_commit" /\ pc'[w] = "done"
                 /\ local'[w].error # "OperationalError") =>
                /\ HeldBy(w) = {req[w].dest}
                /\ result'[w].status = "Completed"
                /\ CommitsOne(w, "deposit", "credit", req[w].dest) ]_vars

\* --------------------------------------------------------------- C13
MoneyOps == {"transfer", "deposit", "withdrawal"}

\* C13: every committed Transaction row has status "completed"; an attempt
\* that has failed has left no Transaction row; and a caller is answered
\* either with a committed, completed Transaction or with a failure.
CompletedOnly ==
    /\ \A tx \in transactions : tx.status = "completed"
    /\ \A w \in Workers :
          (Done(w) /\ req[w].op \in MoneyOps) =>
             \/ /\ result[w].status = "Completed"
                /\ \E tx \in transactions :
                      tx.id = result[w].id /\ tx.status = "completed"
             \/ /\ result[w].status \in FailureKinds
                /\ NothingLeft(w)

\* One attempt has completed while another failed after its Transaction row
\* was inserted.
CompletedOnlyWitness ==
    \E w \in Workers : \E v \in Workers \ {w} :
        /\ Done(w) /\ result[w].status = "Completed"
        /\ Done(v) /\ result[v].status = "Internal"
        /\ local[v].tx # NoRow

\* --------------------------------------------------------------- C14
\* C14: no step removes or changes a committed Transaction or LedgerEntry
\* row: every committed row stays as it is, and a row a step commits has an
\* id no committed row has (it is a new row, not a new version of one).
AppendOnly ==
    [][ /\ transactions \subseteq transactions'
        /\ entries \subseteq entries'
        /\ \A t \in transactions' \ transactions :
              \A u \in transactions : u.id # t.id
        /\ \A e \in entries' \ entries :
              \A f \in entries : f.id # e.id ]_vars

\* A second operation has committed and been answered while the rows of the
\* first are still there.
AppendOnlyWitness ==
    /\ Cardinality(transactions) >= 2
    /\ \E w \in Workers : Done(w) /\ result[w].status = "Completed"
    /\ \E tx \in transactions : tx.id = 1 /\ EntriesOf(tx) # {}

\* --------------------------------------------------------------- C15
\* The worker has been answered the balance of the account.
HasRead(w, id) ==
    /\ Done(w) /\ req[w].op = "read" /\ req[w].source = id
    /\ result[w].status = "Account"

\* C15: a step of GetAccount changes no account, transaction or ledger-entry
\* row, draws no id and takes no row lock; the balance it answers is the one
\* derived from the committed entries; and it is the balance another
\* GetAccount of the same account was answered, when no entry of the account
\* has been committed since that one read them.
ReadOnly ==
    [][ \A w \in Workers :
          (pc[w] \in {"g_query", "g_balance"} /\ pc'[w] # pc[w]) =>
             /\ db' = db
             /\ locks' = locks
             /\ result'[w].status = "Account" =>
                   /\ result'[w].amount = calculate_account_balance(req[w].source)
                   /\ \A v \in Workers \ {w} :
                         (HasRead(v, req[w].source)
                             /\ local[v].entries
                                  = {e \in entries : e.account_id = req[w].source})
                            => result'[w].amount = result[v].amount ]_vars

\* Two reads of one account, holding a balance, have been answered with no
\* write in between.
ReadOnlyWitness ==
    \E w \in Workers : \E v \in Workers \ {w} :
        /\ HasRead(w, req[v].source) /\ HasRead(v, req[w].source)
        /\ local[w].entries = local[v].entries
        /\ result[w].amount > 0
        /\ result[w].amount = result[v].amount

\* --------------------------------------------------------------- C16
\* The accounts whose rows the worker's locking queries have returned in the
\* database transaction it has open.
Holding(w) ==
    IF pc[w] \in {"idle", "done"} \/ req[w].op \notin MoneyOps THEN {}
    ELSE {a.id : a \in {local[w].source_account, local[w].dest_account} \ {NoRow}}

\* C16: while a transfer or withdrawal stands between the computation of its
\* source's balance and its commit, no step commits a ledger entry of that
\* source; and no two workers have, in their open transactions, locked the
\* same account.
ReadWriteConsistency ==
    [][ /\ \A w \in Workers :
              (pc[w] \in {"t_commit", "w_commit"} /\ pc'[w] = pc[w]) =>
                 {e \in entries' : e.account_id = req[w].source}
                    = {e \in entries : e.account_id = req[w].source}
        /\ \A w \in Workers : \A v \in Workers \ {w} :
              Holding(w)' \cap Holding(v)' = {} ]_vars

\* A deposit into the source of a debit that has computed the balance and
\* not committed yet waits for the row lock.
ReadWriteConsistencyWitness ==
    \E w \in Workers : \E v \in Workers \ {w} :
        /\ pc[w] \in {"t_commit", "w_commit"}
        /\ req[v].op = "deposit"
        /\ Blocked(v)
        /\ Wanted(v) = req[w].source

\* --------------------------------------------------------------- C17
\* C17: a transfer, deposit or withdrawal whose amount is not above 0 is
\* answered with a validation failure in the step in which it arrives, which
\* takes no lock and changes no row; and every committed LedgerEntry and
\* Transaction has an amount above 0.
PositiveAmounts ==
    [][ /\ \A w \in Workers :
              (pc[w] = "idle" /\ pc'[w] # "idle"
                  /\ req'[w].op \in MoneyOps /\ req'[w].amount <= 0) =>
                 /\ pc'[w] = "done"
                 /\ result'[w].status = "ValidationError"
                 /\ db' = db
                 /\ locks' = locks
        /\ \A e \in entries' : e.amount > 0
        /\ \A tx \in transactions' : tx.amount > 0 ]_vars

\* With money in the ledger, a request of a non-positive amount has been
\* refused.
PositiveAmountsWitness ==
    \E w \in Workers :
        /\ Done(w) /\ req[w].op \in MoneyOps /\ req[w].amount <= 0
        /\ result[w].status = "ValidationError"
        /\ entries # {}

\* --------------------------------------------------------------- C18
\* The account exists and its currency is not the requested one.
Foreign(w, id) ==
    /\ AccountRow(id) # NoRow
    /\ AccountRow(id).currency # req[w].currency

\* The Transaction the step commits carries the requested currency.
CarriesCurrency(w) ==
    \A tx \in transactions' \ transactions : tx.currency = req[w].currency

\* C18: a deposit into an existing account of another currency than the
\* requested one, and a withdrawal from one that holds the amount, pass the
\* handler's checks and complete, unless the connection to the database
\* fails: the Transaction carries the requested currency and its entry
\* changes the account's balance by the Transaction's amount.
ForeignCurrency ==
    [][ \A w \in Workers :
          /\ (pc[w] = "d_check" /\ pc'[w] # pc[w] /\ Foreign(w, req[w].dest))
                => pc'[w] = "d_commit"
          /\ (pc[w] = "w_check" /\ pc'[w] # pc[w] /\ Foreign(w, req[w].source)
                 /\ ~ InsufficientFunds(calculate_account_balance(req[w].source),
                                        req[w].amount))
                => pc'[w] = "w_commit"
          /\ (pc[w] = "d_commit" /\ pc'[w] = "done" /\ Foreign(w, req[w].dest)
                 /\ local'[w].error # "OperationalError") =>
                /\ result'[w].status = "Completed"
                /\ CommitsOne(w, "deposit", "credit", req[w].dest)
                /\ CarriesCurrency(w)
                /\ calculate_account_balance(req[w].dest)'
                      = calculate_account_balance(req[w].dest) + result'[w].amount
          /\ (pc[w] = "w_commit" /\ pc'[w] = "done" /\ Foreign(w, req[w].source)
                 /\ local'[w].error # "OperationalError") =>
                /\ result'[w].status = "Completed"
                /\ CommitsOne(w, "withdrawal", "debit", req[w].source)
                /\ CarriesCurrency(w)
                /\ calculate_account_balance(req[w].source)'
                      = calculate_account_balance(req[w].source) - result'[w].amount ]_vars

\* --------------------------------------------------------------- C19
\* C19: a worker whose transfer, deposit or withdrawal has returned, with
\* whatever answer, holds no row lock, so whoever waits for a lock waits for
\* a worker still in its handler; and a step commits a ledger entry only for
\* a worker that holds the row lock of the entry's account.
LockScope ==
    [][ /\ \A w \in Workers :
              pc'[w] \in {"idle", "done"} => HeldBy(w)' = {}
        /\ \A v \in Workers :
              Blocked(v)' => pc'[locks'[Wanted(v)']] \notin {"idle", "done"}
        /\ \A e \in entries' \ entries :
              \E w \in Workers :
                 /\ pc[w] \in {"t_commit", "d_commit", "w_commit"}
                 /\ local[w].tx.id = e.transaction_id
                 /\ locks[e.account_id] = w ]_vars

\* A transfer locked its source, found no destination and failed NotFound;
\* the other worker has locked that source since.
LockScopeWitness ==
    \E w \in Workers : \E v \in Workers \ {w} :
        /\ Done(w) /\ req[w].op = "transfer" /\ result[w].status = "NotFound"
        /\ local[w].source_account # NoRow
        /\ locks[req[w].source] = v

\* --------------------------------------------------------------- C20
RECURSIVE SumAmounts(_)
\* The total amount of a set of Transaction rows.
SumAmounts(txs) ==
    IF txs = {} THEN 0
    ELSE LET tx == CHOOSE x \in txs : TRUE
         IN  tx.amount + SumAmounts(txs \ {tx})

RECURSIVE SumBalances(_)
\* The total of the derived balances of a set of accounts.
SumBalances(ids) ==
    IF ids = {} THEN 0
    ELSE LET id == CHOOSE x \in ids : TRUE
         IN  calculate_account_balance(id) + SumBalances(ids \ {id})

TotalBalance == SumBalances({a.id : a \in accounts})

Deposited == SumAmounts({tx \in transactions : tx.type = "deposit"})

Withdrawn == SumAmounts({tx \in transactions : tx.type = "withdrawal"})

\* The committed rows.
Committed == <<accounts, transactions, entries>>

\* C20: in the empty ledger and after every step that changes the committed
\* rows, the balances of all accounts add up to the amounts of the committed
\* deposits less those of the committed withdrawals; the step that completes
\* a transfer leaves that total as it is, and a transfer from an account to
\* itself leaves the account's balance as it is.
Conservation ==
    [][ Committed' # Committed =>
          /\ TotalBalance' = Deposited' - Withdrawn'
          /\ \A w \in Workers :
                (pc[w] = "t_commit" /\ pc'[w] = "done") =>
                   /\ TotalBalance' = TotalBalance
                   /\ req[w].source = req[w].dest =>
                         calculate_account_balance(req[w].source)'
                            = calculate_account_balance(req[w].source) ]_vars

\* A transfer from an account to itself has completed.
ConservationWitness ==
    \E w \in Workers :
        /\ Done(w) /\ req[w].op = "transfer" /\ result[w].status = "Completed"
        /\ req[w].source = req[w].dest
        /\ result[w].amount > 0
        /\ TotalBalance > 0

====
